---- MODULE Spec2Model ----
(***************************************************************************)
(* The streaming-response ingestion and state-accumulation engine of the   *)
(* App component (src/unnamed/part_000): handleSubmit with its read loop   *)
(* and frame decoder, handleStreamEvent (the reducer), the timeline        *)
(* timers, handleCancel and handleNewAnalysis.                             *)
(*                                                                         *)
(* JavaScript strings of the session state are TLA+ strings; the text on   *)
(* the wire and in the read loop's buffer is a sequence of characters. A   *)
(* JavaScript object with optional keys is a function whose domain is the  *)
(* set of keys present; `null` is Null.                                    *)
(***************************************************************************)
EXTENDS Integers, Sequences, FiniteSets, TLC

VARIABLES
    messages,                 \* useState<Message[]>([])
    isLoading,                \* useState(false): the in-flight flag
    processedEventsTimeline,  \* useState<ProcessedEvent[]>([]): live timeline
    historicalActivities,     \* useState<Record<string, ProcessedEvent[]>>({})
    error,                    \* useState<string | null>(null)
    currentStreamingMessage,  \* useState<string>("")
    streamingMetadata,        \* useState<{...}>({})
    captured,                 \* the state values closed over by the handleStreamEvent
                              \* instance that the memoized handleSubmit calls
    now,                      \* Date.now(), in milliseconds
    nreq,                     \* number of handleSubmit invocations that passed the guard
    pc,                       \* per invocation: "idle", "fetching", "reading", then
                              \* "done" (left the loop by break) or "failed" (by the catch)
    submitTime,               \* per invocation: the clock when its timers were scheduled
    timersFired,              \* per invocation: how many of its setTimeout callbacks ran
    buffer,                   \* per invocation: `let buffer` of the read loop
    reads,                    \* per invocation: number of chunks read so far
    delivered,                \* history: the events passed to handleStreamEvent, per invocation
    commands,                 \* history, per invocation: the UI commands run since its
                              \* submit, each with whether its read loop was running
    ncommands,                \* number of handleCancel/handleNewAnalysis calls so far
    stream,                   \* decoder runs: the whole text the server sends
    pos                       \* decoder runs: how much of it the reader has returned

vars == <<messages, isLoading, processedEventsTimeline, historicalActivities, error,
          currentStreamingMessage, streamingMetadata, captured, now, nreq, pc,
          submitTime, timersFired, buffer, reads, delivered, commands, ncommands,
          stream, pos>>

sessionVars == <<messages, isLoading, processedEventsTimeline, historicalActivities,
                 error, currentStreamingMessage, streamingMetadata>>

(* Bounds of the runs *)

MaxRequests == 2
MaxSessionReads == 2
MaxFoldReads == 3
MaxSegments == 2
MaxWireReads == 3
MaxCommands == 1
MaxSeconds == 1
MaxMs == 1

(* Program constants *)

TimerDelay == 1000
DataPrefixLen == 6

Requests == 1..MaxRequests

(* JavaScript values *)

Null == <<>>

Some(text) == <<text>>

EmptyObject == [k \in {} |-> ""]

\* { ...obj, [key]: value }
Spread(obj, key, value) ==
    [k \in DOMAIN obj \cup {key} |-> IF k = key THEN value ELSE obj[k]]

Last(seq) == seq[Len(seq)]

Whitespace == {" ", "\n", "\t", "\r"}

RECURSIVE TrimStart(_)
TrimStart(s) ==
    IF Len(s) > 0 /\ SubSeq(s, 1, 1) \in Whitespace
    THEN TrimStart(SubSeq(s, 2, Len(s)))
    ELSE s

RECURSIVE TrimEnd(_)
TrimEnd(s) ==
    IF Len(s) > 0 /\ SubSeq(s, Len(s), Len(s)) \in Whitespace
    THEN TrimEnd(SubSeq(s, 1, Len(s) - 1))
    ELSE s

\* String.prototype.trim
Trim(s) == TrimEnd(TrimStart(s))

\* The characters of a string: what TextDecoder.decode yields for its bytes
Chars(s) == [i \in 1..Len(s) |-> SubSeq(s, i, i)]

\* String.prototype.startsWith, on decoded text
StartsWith(s, prefix) ==
    Len(s) >= Len(prefix) /\ SubSeq(s, 1, Len(prefix)) = prefix

\* String.prototype.split('\n') on decoded text: the pieces between newlines,
\* the last one being the text after the last newline (possibly empty)
RECURSIVE SplitFrom(_, _, _)
SplitFrom(s, start, i) ==
    IF i > Len(s) THEN <<SubSeq(s, start, Len(s))>>
    ELSE IF s[i] = "\n"
         THEN <<SubSeq(s, start, i - 1)>> \o SplitFrom(s, i + 1, i + 1)
         ELSE SplitFrom(s, start, i + 1)

Split(s) == SplitFrom(s, 1, 1)

\* Date.now().toString() and (Date.now() + 1).toString()
NumberToString(n) == ToString(n)

(* The wire format: `data: ` + JSON.stringify({type, content}) + newline *)

Event(type, content) == [type |-> type, content |-> content]

SectionTypes ==
    {"domain_expert", "ux_ui_specialist", "technical_architect",
     "revenue_model_analyst", "moderator_aggregation", "final_answer"}

\* The events the runs put on the wire. "ping" is a kind the switch does not know.
SessionEvents ==
    {Event("domain_expert", "Needs CRUD"), Event("complete", ""),
     Event("error", "rate limited")}

FoldEvents ==
    {Event(t, "a") : t \in SectionTypes}
        \cup {Event("domain_expert", "b"), Event("message", ""), Event("message", "hi"),
              Event("complete", ""), Event("error", "rate limited"), Event("ping", "")}

WireEvents == SessionEvents \cup FoldEvents

\* JSON.stringify of an event object
JSONStringify(event) ==
    "{\"type\":\"" \o event.type \o "\",\"content\":\"" \o event.content \o "\"}"

\* JSON.parse: the value of a well-formed text (surrounding whitespace allowed),
\* a SyntaxError for any other text. The well-formed texts of the runs are the
\* encodings of WireEvents.
Encodings == [e \in WireEvents |-> Chars(JSONStringify(e))]

RECURSIVE SkipWhitespace(_)
SkipWhitespace(text) ==
    IF text # <<>> /\ Head(text) \in Whitespace THEN SkipWhitespace(Tail(text))
    ELSE IF text # <<>> /\ Last(text) \in Whitespace
         THEN SkipWhitespace(SubSeq(text, 1, Len(text) - 1))
         ELSE text

ParseValue(t) ==
    IF \E e \in WireEvents : Encodings[e] = t
    THEN [ok |-> TRUE, value |-> CHOOSE e \in WireEvents : Encodings[e] = t]
    ELSE [ok |-> FALSE]

JSONParse(text) == ParseValue(SkipWhitespace(text))

DataPrefix == Chars("data: ")

Frame(event) == DataPrefix \o Chars(JSONStringify(event) \o "\n")

\* Lines that carry no event: a comment line and a frame whose JSON is cut short
CommentLine == Chars(": ping\n")

BrokenFrame == Chars("data: {\"type\":\"mess\n")

SessionChunks == {Frame(e) : e \in SessionEvents}

FoldChunks == {Frame(e) : e \in FoldEvents}

(* handleSubmit's timelineEvents, lines 85-114 *)

timelineEvents ==
    << [title |-> "Query Classification",
        data |-> "Analyzing query type and routing to appropriate specialists..."],
       [title |-> "Domain Expert Analysis",
        data |-> "Analyzing business logic and domain-specific requirements..."],
       [title |-> "UX/UI Specialist Analysis",
        data |-> "Analyzing user experience and interface design requirements..."],
       [title |-> "Technical Architect Analysis",
        data |-> "Analyzing technical architecture and implementation requirements..."],
       [title |-> "Revenue Model Analyst Analysis",
        data |-> "Analyzing revenue models and monetization strategies..."],
       [title |-> "Moderator Aggregation",
        data |-> "Consolidating feedback and resolving conflicts..."],
       [title |-> "Final Answer Generation",
        data |-> "Generating comprehensive final answer..."] >>

(* The session state as handleStreamEvent's state setters see it *)

Session ==
    [messages |-> messages,
     historicalActivities |-> historicalActivities,
     error |-> error,
     currentStreamingMessage |-> currentStreamingMessage,
     streamingMetadata |-> streamingMetadata]

\* The values a handleStreamEvent instance closes over (its useCallback deps)
Closure(message, metadata, timeline) ==
    [currentStreamingMessage |-> message,
     streamingMetadata |-> metadata,
     processedEventsTimeline |-> timeline]

\* useCallback(fn, deps): the instance of the render that last saw deps change
UseCallback(previous, fresh, depsChanged) ==
    IF depsChanged THEN fresh ELSE previous

AiMessageNoFallback(closure, clock) ==
    [type |-> "ai",
     content |-> closure.currentStreamingMessage,
     id |-> NumberToString(clock + 1),
     metadata |-> Spread(Spread(closure.streamingMetadata, "processing_time", 0),
                         "query_type", "general")]

\* case 'complete': the assistant message, built from the values the handler
\* closed over
AiMessage(closure, clock) ==
    [type |-> "ai",
     content |-> IF closure.currentStreamingMessage = ""
                 THEN "Analysis completed"
                 ELSE closure.currentStreamingMessage,
     id |-> NumberToString(clock + 1),
     metadata |-> Spread(Spread(closure.streamingMetadata, "processing_time", 0),
                         "query_type", "general")]

\* A labeled-section case: setStreamingMetadata(prev => ({ ...prev, [field]: content }))
\* and setCurrentStreamingMessage(prev => prev + label + content)
AppendSection(s, field, label, content) ==
    [s EXCEPT !.streamingMetadata = Spread(@, field, content),
              !.currentStreamingMessage = @ \o label \o content]

ReplaceMessageAppends(s, content) ==
    [s EXCEPT !.currentStreamingMessage = @ \o content]

\* case 'message': setCurrentStreamingMessage(event.content)
ReplaceMessage(s, content) ==
    [s EXCEPT !.currentStreamingMessage = content]

CompleteOverwritesLast(s, aiMessage, timeline) ==
    [s EXCEPT !.messages = IF @ = <<>> THEN <<aiMessage>>
                           ELSE Append(SubSeq(@, 1, Len(@) - 1), aiMessage),
              !.historicalActivities = Spread(@, aiMessage.id, timeline)]

CompleteWithoutHistory(s, aiMessage, timeline) ==
    [s EXCEPT !.messages = Append(@, aiMessage)]

\* case 'complete': setMessages(prev => [...prev, aiMessage]) and
\* setHistoricalActivities(prev => ({ ...prev, [aiMessage.id]: [...processedEventsTimeline] }))
Complete(s, aiMessage, timeline) ==
    [s EXCEPT !.messages = Append(@, aiMessage),
              !.historicalActivities = Spread(@, aiMessage.id, timeline)]

\* case 'error': setError(event.content)
SetError(s, content) ==
    [s EXCEPT !.error = Some(content)]

\* handleStreamEvent(event), called by an instance with the given closure while
\* Date.now() is clock; s is the state the queued setters apply to
handleStreamEvent(s, event, closure, clock) ==
    CASE event.type = "domain_expert" ->
           AppendSection(s, "domain_analysis",
                         "\n\n**Domain Expert Analysis:**\n", event.content)
      [] event.type = "ux_ui_specialist" ->
           AppendSection(s, "ux_analysis",
                         "\n\n**UX/UI Specialist Analysis:**\n", event.content)
      [] event.type = "technical_architect" ->
           AppendSection(s, "technical_analysis",
                         "\n\n**Technical Architect Analysis:**\n", event.content)
      [] event.type = "revenue_model_analyst" ->
           AppendSection(s, "revenue_analysis",
                         "\n\n**Revenue Model Analyst Analysis:**\n", event.content)
      [] event.type = "moderator_aggregation" ->
           AppendSection(s, "moderator_aggregation",
                         "\n\n**Moderator Aggregation:**\n", event.content)
      [] event.type = "final_answer" ->
           AppendSection(s, "final_answer",
                         "\n\n**Final Answer:**\n", event.content)
      [] event.type = "message" -> ReplaceMessage(s, event.content)
      [] event.type = "complete" ->
           Complete(s, AiMessage(closure, clock), closure.processedEventsTimeline)
      [] event.type = "error" -> SetError(s, event.content)
      [] OTHER -> s

(* The frame decoder of the read loop, lines 153-166 *)

\* The events of the lines of one chunk, in order: a line that does not start
\* with `data: ` is skipped, one whose JSON.parse throws is warned about and skipped
Parsed(result) == IF result.ok THEN <<result.value>> ELSE <<>>

\* if (line.startsWith('data: ')) { try { JSON.parse(line.slice(6)) ... } catch ... }
LineEvent(line) ==
    IF StartsWith(line, DataPrefix)
    THEN Parsed(JSONParse(SubSeq(line, DataPrefixLen + 1, Len(line))))
    ELSE <<>>

RECURSIVE LineEventsStopAtBadLine(_)
LineEventsStopAtBadLine(lines) ==
    IF lines = <<>> \/ LineEvent(Head(lines)) = <<>> THEN <<>>
    ELSE LineEvent(Head(lines)) \o LineEventsStopAtBadLine(Tail(lines))

RECURSIVE LineEvents(_)
LineEvents(lines) ==
    IF lines = <<>> THEN <<>>
    ELSE LineEvent(Head(lines)) \o LineEvents(Tail(lines))

PopLastDropsRest(pieces) ==
    [lines |-> SubSeq(pieces, 1, Len(pieces) - 1),
     buffer |-> <<>>]

\* lines = buffer.split('\n'); buffer = lines.pop() || ''
PopLast(pieces) ==
    [lines |-> SubSeq(pieces, 1, Len(pieces) - 1),
     buffer |-> Last(pieces)]

\* buffer += decoder.decode(value, { stream: true }), then the split and the pop
Decode(buf, chunk) == PopLast(Split(buf \o chunk))

\* for (const line of lines) ... handleStreamEvent(eventData)
RECURSIVE FoldEventsInto(_, _, _, _)
FoldEventsInto(s, events, closure, clock) ==
    IF events = <<>> THEN s
    ELSE FoldEventsInto(handleStreamEvent(s, Head(events), closure, clock),
                        Tail(events), closure, clock)

(* Initial state: the values of the useState calls at mount, lines 30-48 *)

Init ==
    /\ messages = <<>>
    /\ isLoading = FALSE
    /\ processedEventsTimeline = <<>>
    /\ historicalActivities = EmptyObject
    /\ error = Null
    /\ currentStreamingMessage = ""
    /\ streamingMetadata = EmptyObject
    /\ captured = Closure("", EmptyObject, <<>>)
    /\ now = 0
    /\ nreq = 0
    /\ pc = [r \in Requests |-> "idle"]
    /\ submitTime = [r \in Requests |-> 0]
    /\ timersFired = [r \in Requests |-> 0]
    /\ buffer = [r \in Requests |-> <<>>]
    /\ reads = [r \in Requests |-> 0]
    /\ delivered = [r \in Requests |-> <<>>]
    /\ commands = [r \in Requests |-> {}]
    /\ ncommands = 0
    /\ stream = <<>>
    /\ pos = 0

apiUrl == "http://localhost:2024"

\* The render that follows a state change: handleSubmit is
\* useCallback(..., [apiUrl]), so the instance handed to the UI, and with it the
\* handleStreamEvent instance it calls, is replaced only when apiUrl changes
Rerender ==
    captured' = UseCallback(captured,
                            Closure(currentStreamingMessage', streamingMetadata',
                                    processedEventsTimeline'),
                            <<apiUrl>> # <<apiUrl>>)

Active(r) == pc[r] \in {"fetching", "reading"}

Inputs == {"Build a todo app", "  "}

(* handleSubmit up to the fetch call, lines 65-134 *)

Submit(input) ==
    /\ nreq < MaxRequests
    /\ IF Trim(input) = ""
       THEN UNCHANGED vars
       ELSE LET r == nreq + 1
                userMessage == [type |-> "human", content |-> input,
                                id |-> NumberToString(now)]
            IN  /\ processedEventsTimeline' = <<>>
                /\ isLoading' = TRUE
                /\ error' = Null
                /\ currentStreamingMessage' = ""
                /\ streamingMetadata' = EmptyObject
                /\ messages' = Append(messages, userMessage)
                /\ nreq' = r
                /\ submitTime' = [submitTime EXCEPT ![r] = now]
                /\ timersFired' = [timersFired EXCEPT ![r] = 0]
                /\ pc' = [pc EXCEPT ![r] = "fetching"]
                /\ buffer' = [buffer EXCEPT ![r] = <<>>]
                /\ UNCHANGED <<historicalActivities, now, reads, delivered,
                               commands, ncommands, stream, pos>>
                /\ Rerender

(* The setTimeout callbacks of lines 117-121 *)

Due(r) == submitTime[r] + timersFired[r] * TimerDelay

Pending(r) == r <= nreq /\ timersFired[r] < Len(timelineEvents)

\* Callbacks run no earlier than their delay and in the order of their due times,
\* the earlier registration first when the due times are equal
TimerFires(r) ==
    /\ Pending(r)
    /\ Due(r) <= now
    /\ \A q \in Requests \ {r} :
          Pending(q) => (Due(r) < Due(q) \/ (Due(r) = Due(q) /\ r < q))
    /\ processedEventsTimeline' =
          Append(processedEventsTimeline, timelineEvents[timersFired[r] + 1])
    /\ timersFired' = [timersFired EXCEPT ![r] = @ + 1]
    /\ UNCHANGED <<messages, isLoading, historicalActivities, error,
                   currentStreamingMessage, streamingMetadata, now, nreq, pc, submitTime,
                   buffer, reads, delivered, commands, ncommands, stream, pos>>
    /\ Rerender

FailedKeepsLoading(r, message) ==
    /\ error' = Some(message)
    /\ pc' = [pc EXCEPT ![r] = "failed"]
    /\ UNCHANGED <<messages, isLoading, processedEventsTimeline, historicalActivities,
                   currentStreamingMessage, streamingMetadata, now, nreq, submitTime,
                   timersFired, buffer, reads, delivered, commands, ncommands, stream, pos>>
    /\ Rerender

(* The catch and finally blocks of lines 172-177 *)

Failed(r, message) ==
    /\ error' = Some(message)
    /\ isLoading' = FALSE
    /\ pc' = [pc EXCEPT ![r] = "failed"]
    /\ UNCHANGED <<messages, processedEventsTimeline, historicalActivities,
                   currentStreamingMessage, streamingMetadata, now, nreq, submitTime,
                   timersFired, buffer, reads, delivered, commands, ncommands, stream, pos>>
    /\ Rerender

FetchOutcomes == {"ok", "rejected", "status", "nobody"}

SessionOutcomes == {"ok", "status"}

(* await fetch(...) settles, lines 125-143 *)

FetchSettles(r, outcome) ==
    /\ pc[r] = "fetching"
    /\ CASE outcome = "ok" ->
              /\ pc' = [pc EXCEPT ![r] = "reading"]
              /\ UNCHANGED <<sessionVars, captured, now, nreq, submitTime, timersFired,
                             buffer, reads, delivered, commands, ncommands, stream, pos>>
         [] outcome = "rejected" -> Failed(r, "Failed to fetch")
         [] outcome = "status" -> Failed(r, "HTTP error! status: 500")
         [] outcome = "nobody" -> Failed(r, "No response body reader available")

(* One turn of the read loop with done = false, lines 150-166 *)

ReadChunk(r, chunk) ==
    /\ pc[r] = "reading"
    /\ \E decoded \in {Decode(buffer[r], chunk)} :
       \E events \in {LineEvents(decoded.lines)} :
       \E s \in {FoldEventsInto(Session, events, captured, now)} :
           /\ buffer' = [buffer EXCEPT ![r] = decoded.buffer]
           /\ messages' = s.messages
           /\ historicalActivities' = s.historicalActivities
           /\ error' = s.error
           /\ currentStreamingMessage' = s.currentStreamingMessage
           /\ streamingMetadata' = s.streamingMetadata
           /\ delivered' = [delivered EXCEPT ![r] = @ \o events]
    /\ reads' = [reads EXCEPT ![r] = @ + 1]
    /\ UNCHANGED <<isLoading, processedEventsTimeline, now, nreq, pc, submitTime,
                   timersFired, commands, ncommands>>
    /\ Rerender

(* reader.read() resolves with done = true: break, releaseLock, finally; lines 151, 168-177 *)

ReadDone(r) ==
    /\ pc[r] = "reading"
    /\ isLoading' = FALSE
    /\ pc' = [pc EXCEPT ![r] = "done"]
    /\ UNCHANGED <<messages, processedEventsTimeline, historicalActivities, error,
                   currentStreamingMessage, streamingMetadata, now, nreq, submitTime,
                   timersFired, buffer, reads, delivered, commands, ncommands, stream, pos>>
    /\ Rerender

(* reader.read() rejects: releaseLock, catch, finally; lines 150, 168-177 *)

ReadThrows(r) ==
    /\ pc[r] = "reading"
    /\ Failed(r, "network error")

\* History: the command reaches every invocation submitted before it
Log(op) ==
    /\ ncommands < MaxCommands
    /\ ncommands' = ncommands + 1
    /\ commands' = [r \in Requests |->
                       IF r <= nreq THEN commands[r] \cup {<<op, pc[r] = "reading">>}
                       ELSE commands[r]]

(* handleCancel, lines 249-255 *)

Cancel ==
    /\ isLoading' = FALSE
    /\ processedEventsTimeline' = <<>>
    /\ error' = Null
    /\ currentStreamingMessage' = ""
    /\ streamingMetadata' = EmptyObject
    /\ Log("cancel")
    /\ UNCHANGED <<messages, historicalActivities, now, nreq, pc, submitTime,
                   timersFired, buffer, reads, delivered, stream, pos>>
    /\ Rerender

NewAnalysisKeepsHistory ==
    /\ messages' = <<>>
    /\ processedEventsTimeline' = <<>>
    /\ error' = Null
    /\ currentStreamingMessage' = ""
    /\ streamingMetadata' = EmptyObject
    /\ isLoading' = FALSE
    /\ Log("reset")
    /\ UNCHANGED <<historicalActivities, now, nreq, pc, submitTime, timersFired,
                   buffer, reads, delivered, stream, pos>>
    /\ Rerender

(* handleNewAnalysis, lines 257-265 *)

NewAnalysis ==
    /\ messages' = <<>>
    /\ processedEventsTimeline' = <<>>
    /\ historicalActivities' = EmptyObject
    /\ error' = Null
    /\ currentStreamingMessage' = ""
    /\ streamingMetadata' = EmptyObject
    /\ isLoading' = FALSE
    /\ Log("reset")
    /\ UNCHANGED <<now, nreq, pc, submitTime, timersFired, buffer, reads,
                   delivered, stream, pos>>
    /\ Rerender

(* The clock: a millisecond passes, or a whole timer delay *)

Advance(d) ==
    /\ IF d = 1 THEN now % TimerDelay < MaxMs ELSE now \div TimerDelay < MaxSeconds
    /\ now' = now + d
    /\ UNCHANGED <<sessionVars, captured, nreq, pc, submitTime, timersFired, buffer,
                   reads, delivered, commands, ncommands, stream, pos>>

(* The session: any interleaving of the UI commands, the network and the timers *)

RECURSIVE TotalReads(_)
TotalReads(n) == IF n = 0 THEN 0 ELSE reads[n] + TotalReads(n - 1)

ReadSession(r, chunk) ==
    /\ TotalReads(MaxRequests) < MaxSessionReads
    /\ ReadChunk(r, chunk)
    /\ UNCHANGED <<stream, pos>>

Next ==
    \/ \E input \in Inputs : Submit(input)
    \/ \E r \in Requests : TimerFires(r)
    \/ \E r \in Requests, outcome \in SessionOutcomes : FetchSettles(r, outcome)
    \/ \E r \in Requests, chunk \in SessionChunks : ReadSession(r, chunk)
    \/ \E r \in Requests : ReadDone(r)
    \/ \E r \in Requests : ReadThrows(r)
    \/ Cancel
    \/ NewAnalysis
    \/ \E d \in {1, TimerDelay} : Advance(d)

Spec == Init /\ [][Next]_vars

(* One request and every kind of event: the reducer's fold over a stream *)

ReadFold(r, chunk) ==
    /\ reads[r] < MaxFoldReads
    /\ ReadChunk(r, chunk)
    /\ UNCHANGED <<stream, pos>>

SubmitOnce(input) ==
    /\ nreq = 0
    /\ Submit(input)

NextFold ==
    \/ \E input \in Inputs : SubmitOnce(input)
    \/ \E outcome \in FetchOutcomes : FetchSettles(1, outcome)
    \/ \E chunk \in FoldChunks : ReadFold(1, chunk)
    \/ ReadDone(1)
    \/ ReadThrows(1)
    \/ Cancel

SpecFold == Init /\ [][NextFold]_vars

(* One request whose response text is fixed and reaches the reader in chunks *)
(* of any sizes: the frame decoder                                           *)

\* A frame that the server did not terminate with a newline
Unterminated(event) == DataPrefix \o Chars(JSONStringify(event))

Segments ==
    {Frame(Event("message", "hi")), Frame(Event("complete", "")), CommentLine,
     Unterminated(Event("message", "hi"))}

RECURSIVE Streams(_)
Streams(n) ==
    IF n = 0 THEN {<<>>}
    ELSE Streams(n - 1) \cup {t \o seg : t \in Streams(n - 1), seg \in Segments}

InitDecoder ==
    /\ messages = <<>>
    /\ isLoading = FALSE
    /\ processedEventsTimeline = <<>>
    /\ historicalActivities = EmptyObject
    /\ error = Null
    /\ currentStreamingMessage = ""
    /\ streamingMetadata = EmptyObject
    /\ captured = Closure("", EmptyObject, <<>>)
    /\ now = 0
    /\ nreq = 0
    /\ pc = [r \in Requests |-> "idle"]
    /\ submitTime = [r \in Requests |-> 0]
    /\ timersFired = [r \in Requests |-> 0]
    /\ buffer = [r \in Requests |-> <<>>]
    /\ reads = [r \in Requests |-> 0]
    /\ delivered = [r \in Requests |-> <<>>]
    /\ commands = [r \in Requests |-> {}]
    /\ ncommands = 0
    /\ stream \in Streams(MaxSegments)
    /\ pos = 0

\* reader.read() returns the next n characters of the response
ReadWire(r, n) ==
    /\ reads[r] < MaxWireReads
    /\ pos + n <= Len(stream)
    /\ ReadChunk(r, SubSeq(stream, pos + 1, pos + n))
    /\ pos' = pos + n
    /\ UNCHANGED stream

\* The response is exhausted: reader.read() returns done
ReadEnd(r) ==
    /\ pos = Len(stream)
    /\ ReadDone(r)

NextDecoder ==
    \/ \E input \in Inputs : SubmitOnce(input)
    \/ FetchSettles(1, "ok")
    \/ \E n \in 1..Len(stream) : ReadWire(1, n)
    \/ ReadEnd(1)

SpecDecoder == InitDecoder /\ [][NextDecoder]_vars

(* One request whose response mixes frames with lines that carry no event *)

MaxLines == 2

LineSegments == {Frame(Event("message", "hi")), CommentLine, BrokenFrame}

RECURSIVE LineStreams(_)
LineStreams(n) ==
    IF n = 0 THEN {<<>>}
    ELSE LineStreams(n - 1) \cup {t \o seg : t \in LineStreams(n - 1), seg \in LineSegments}

InitLines ==
    /\ messages = <<>>
    /\ isLoading = FALSE
    /\ processedEventsTimeline = <<>>
    /\ historicalActivities = EmptyObject
    /\ error = Null
    /\ currentStreamingMessage = ""
    /\ streamingMetadata = EmptyObject
    /\ captured = Closure("", EmptyObject, <<>>)
    /\ now = 0
    /\ nreq = 0
    /\ pc = [r \in Requests |-> "idle"]
    /\ submitTime = [r \in Requests |-> 0]
    /\ timersFired = [r \in Requests |-> 0]
    /\ buffer = [r \in Requests |-> <<>>]
    /\ reads = [r \in Requests |-> 0]
    /\ delivered = [r \in Requests |-> <<>>]
    /\ commands = [r \in Requests |-> {}]
    /\ ncommands = 0
    /\ stream \in LineStreams(MaxLines)
    /\ pos = 0

SpecLines == InitLines /\ [][NextDecoder]_vars

(* ---------------------------------------------------------------------- *)
(* The properties                                                         *)
(* ---------------------------------------------------------------------- *)

(* What the specification says the reducer computes, written without the  *)
(* reducer: the label of each section tag, the metadata field it fills,   *)
(* and the display text as a left fold of the events                      *)

SectionLabel(type) ==
    CASE type = "domain_expert" -> "\n\n**Domain Expert Analysis:**\n"
      [] type = "ux_ui_specialist" -> "\n\n**UX/UI Specialist Analysis:**\n"
      [] type = "technical_architect" -> "\n\n**Technical Architect Analysis:**\n"
      [] type = "revenue_model_analyst" -> "\n\n**Revenue Model Analyst Analysis:**\n"
      [] type = "moderator_aggregation" -> "\n\n**Moderator Aggregation:**\n"
      [] type = "final_answer" -> "\n\n**Final Answer:**\n"

MetadataField(type) ==
    CASE type = "domain_expert" -> "domain_analysis"
      [] type = "ux_ui_specialist" -> "ux_analysis"
      [] type = "technical_architect" -> "technical_analysis"
      [] type = "revenue_model_analyst" -> "revenue_analysis"
      [] type = "moderator_aggregation" -> "moderator_aggregation"
      [] type = "final_answer" -> "final_answer"

FoldText(text, event) ==
    IF event.type \in SectionTypes
    THEN text \o SectionLabel(event.type) \o event.content
    ELSE IF event.type = "message" THEN event.content ELSE text

RECURSIVE DisplayText(_)
DisplayText(events) ==
    IF events = <<>> THEN ""
    ELSE FoldText(DisplayText(SubSeq(events, 1, Len(events) - 1)), Last(events))

\* The payload of the last event of the given tag
RECURSIVE LastPayload(_, _)
LastPayload(events, type) ==
    IF Last(events).type = type THEN Last(events).content
    ELSE LastPayload(SubSeq(events, 1, Len(events) - 1), type)

Occurs(events, type) == \E i \in 1..Len(events) : events[i].type = type

CompleteEvent == Event("complete", "")

\* This step folds a `complete` event of invocation r
FoldsComplete(r) == delivered'[r] = Append(delivered[r], CompleteEvent)

\* This step hands events of invocation r to the reducer
Folds(r) == delivered'[r] # delivered[r]

\* C1: when a `complete` event is folded, an assistant Turn is appended whose
\* content is the display text accumulated from the events of the same stream
\* that arrived before it, the fallback "Analysis completed" only if that text
\* is empty.
C1_AssistantContentIsAccruedText ==
    [][\A r \in Requests :
          FoldsComplete(r) =>
              /\ Len(messages') = Len(messages) + 1
              /\ Last(messages').type = "ai"
              /\ Last(messages').content =
                    (IF DisplayText(delivered[r]) = "" THEN "Analysis completed"
                     ELSE DisplayText(delivered[r]))]_vars

\* C2: when `complete` follows labeled-section events in one stream, the
\* metadata of the resulting assistant Turn holds, for each tag that occurred,
\* the last payload seen for that tag.
C2_MetadataHasLastPayloads ==
    [][\A r \in Requests :
          FoldsComplete(r) =>
              \A t \in SectionTypes :
                  Occurs(delivered[r], t) =>
                      /\ MetadataField(t) \in DOMAIN Last(messages').metadata
                      /\ Last(messages').metadata[MetadataField(t)]
                            = LastPayload(delivered[r], t)]_vars

\* C3: cancel() while a request is streaming leaves the in-flight flag false, and
\* from then on no event of the abandoned request's stream changes the
\* historical timeline map.
C3_CancelLeavesHistoryAlone ==
    [][\A r \in Requests :
          /\ (<<"cancel", TRUE>> \in commands'[r] \ commands[r]) => ~isLoading'
          /\ (<<"cancel", TRUE>> \in commands[r] /\ Folds(r)) =>
                 historicalActivities' = historicalActivities]_vars

\* C4: folding an `error` event with payload t sets the session error to t and
\* clears the in-flight flag, and no event of a stream that has delivered an
\* `error` adds a Turn.
C4_ErrorEndsRequest ==
    [][\A r \in Requests :
          /\ \A e \in WireEvents :
                 (e.type = "error" /\ delivered'[r] = Append(delivered[r], e)) =>
                     /\ error' = Some(e.content)
                     /\ isLoading' = FALSE
                     /\ messages' = messages
          /\ (Occurs(delivered[r], "error") /\ Folds(r)) => messages' = messages]_vars

\* C5: once cancel() or reset() has run, no timer of a request submitted before
\* it appends an entry to the live timeline.
C5_NoStaleTimelineEntry ==
    [][\A r \in Requests :
          (commands[r] # {} /\ timersFired'[r] = timersFired[r] + 1) =>
              processedEventsTimeline' = processedEventsTimeline]_vars

\* C6: no two Turns of the Turn list have the same id.
C6_TurnIdsUnique ==
    \A i, j \in 1..Len(messages) : i # j => messages[i].id # messages[j].id

\* C7: at most one request is in flight: never are two read loops running.
C7_OneReadLoop ==
    \A q, r \in Requests : (pc[q] = "reading" /\ pc[r] = "reading") => q = r

\* C8: when `complete` is folded, the historical map holds, under the new
\* assistant Turn's id, the live timeline as it stands at that moment.
C8_HistoryIsLiveTimeline ==
    [][\A r \in Requests :
          FoldsComplete(r) =>
              /\ Last(messages').id \in DOMAIN historicalActivities'
              /\ historicalActivities'[Last(messages').id] = processedEventsTimeline]_vars

\* C9: within one request (no cancel since its submit) the accumulated display
\* text is the left fold of the events of its stream in arrival order, from the
\* empty text: a section event appends its labeled block, `message` replaces the
\* text, every other kind leaves it unchanged.
C9_DisplayTextIsLeftFold ==
    commands[1] = {} => currentStreamingMessage = DisplayText(delivered[1])

\* A `message` has replaced the text and the same section block was then
\* appended twice
C9_Witness ==
    /\ commands[1] = {}
    /\ Len(delivered[1]) = 3
    /\ delivered[1][1].type \in SectionTypes
    /\ delivered[1][2].type = "message"
    /\ delivered[1][3] = delivered[1][1]
    /\ currentStreamingMessage = delivered[1][2].content
            \o SectionLabel(delivered[1][3].type) \o delivered[1][3].content

\* The position of the first newline of a text at or after position i, 0 if none
RECURSIVE NewlineAt(_, _)
NewlineAt(text, i) ==
    IF i > Len(text) THEN 0
    ELSE IF text[i] = "\n" THEN i ELSE NewlineAt(text, i + 1)

\* The newline-terminated lines of a text from position start on, in order; what
\* follows the last newline is no line
RECURSIVE TerminatedLines(_, _)
LinesUpTo(text, start, newline) ==
    IF newline = 0 THEN <<>>
    ELSE <<SubSeq(text, start, newline - 1)>> \o TerminatedLines(text, newline + 1)

TerminatedLines(text, start) == LinesUpTo(text, start, NewlineAt(text, start))

\* The events of the lines that begin with `data: ` and whose payload decodes
RECURSIVE EventsOfLines(_)
EventsOfLines(lines) ==
    IF lines = <<>> THEN <<>>
    ELSE (IF /\ Len(Head(lines)) >= 6
             /\ SubSeq(Head(lines), 1, 6) = <<"d", "a", "t", "a", ":", " ">>
             /\ JSONParse(SubSeq(Head(lines), 7, Len(Head(lines)))).ok
          THEN <<JSONParse(SubSeq(Head(lines), 7, Len(Head(lines)))).value>>
          ELSE <<>>) \o EventsOfLines(Tail(lines))

\* C10: however the response text is split into chunks, the events handed to
\* the reducer are the events of the newline-terminated `data: ` lines of the
\* text received so far, in order: a line split across chunks is reassembled,
\* an unterminated last line yields no event.
C10_ChunkingInvariant ==
    delivered[1] = EventsOfLines(TerminatedLines(SubSeq(stream, 1, pos), 1))

\* The response was a single frame, it arrived in two chunks and gave one event
C10_Witness ==
    /\ stream = Frame(Event("message", "hi"))
    /\ pos = Len(stream)
    /\ reads[1] = 2
    /\ delivered[1] = <<Event("message", "hi")>>

\* The lines that a step of the read loop completes: the terminated lines of
\* the text received after it that were not yet terminated before it
NewLines(before, after) == SubSeq(after, Len(before) + 1, Len(after))

\* C11: a line that does not begin with `data: `, or whose payload does not
\* decode, leaves the whole session state unchanged and does not stop the read
\* loop: a read that completes only such lines changes nothing and the loop goes
\* on, and every valid frame completed by a read, also one that follows such
\* lines, is folded.
C11_BadLinesAreSkipped ==
    [][pos' > pos =>
          \A before \in {TerminatedLines(SubSeq(stream, 1, pos), 1)},
             after \in {TerminatedLines(SubSeq(stream, 1, pos'), 1)} :
             \A events \in {EventsOfLines(NewLines(before, after))} :
                /\ delivered'[1] = delivered[1] \o events
                /\ pc'[1] = "reading"
                /\ events = <<>> => UNCHANGED sessionVars]_vars

\* A frame whose payload does not decode and then a valid frame were received,
\* in two chunks: the session was as the submit left it until the
\* valid frame was folded, and the loop is still running
C11_Witness ==
    /\ stream = BrokenFrame \o Frame(Event("message", "hi"))
    /\ pos = Len(stream)
    /\ reads[1] = 2
    /\ buffer[1] = <<>>
    /\ pc[1] = "reading"
    /\ delivered[1] = <<Event("message", "hi")>>
    /\ currentStreamingMessage = "hi"
    /\ streamingMetadata = EmptyObject
    /\ messages = <<[type |-> "human", content |-> "Build a todo app", id |-> "0"]>>
    /\ historicalActivities = EmptyObject
    /\ error = Null
    /\ isLoading

\* This step runs reset() (new analysis) after at least one submit
ResetRuns ==
    \E r \in Requests, reading \in BOOLEAN :
        <<"reset", reading>> \in commands'[r] \ commands[r]

\* C12: in the state immediately after reset(), from any prior state, the Turn
\* list, the historical map and the live timeline are empty, error is null, the
\* streaming display text and metadata are empty and the in-flight flag is false.
C12_ResetEmptiesSession ==
    [][ResetRuns =>
          /\ messages' = <<>>
          /\ historicalActivities' = EmptyObject
          /\ processedEventsTimeline' = <<>>
          /\ error' = Null
          /\ currentStreamingMessage' = ""
          /\ streamingMetadata' = EmptyObject
          /\ isLoading' = FALSE]_vars

\* reset() ran while the only request was streaming, after a timer had fired and
\* a `complete` had added an assistant Turn and a historical entry
C12_Witness ==
    /\ nreq = 1
    /\ commands[1] = {<<"reset", TRUE>>}
    /\ Occurs(delivered[1], "complete")
    /\ timersFired[1] >= 1
    /\ messages = <<>>
    /\ historicalActivities = EmptyObject
    /\ processedEventsTimeline = <<>>
    /\ error = Null
    /\ currentStreamingMessage = ""
    /\ streamingMetadata = EmptyObject
    /\ isLoading = FALSE

\* An event that carries content for the display text
ContentBearing(event) == event.type \in SectionTypes \cup {"message"}

\* C13: if `complete` is folded for a request whose stream delivered no section
\* event and no `message` before it, the created assistant Turn's content is
\* exactly "Analysis completed", never the empty string.
C13_FallbackContent ==
    [][\A r \in Requests :
          (/\ FoldsComplete(r)
           /\ \A i \in 1..Len(delivered[r]) : ~ContentBearing(delivered[r][i])) =>
              /\ Len(messages') = Len(messages) + 1
              /\ Last(messages').type = "ai"
              /\ Last(messages').content = "Analysis completed"]_vars

\* The stream carried an event of an unknown kind and then `complete`
C13_Witness ==
    /\ delivered[1] = <<Event("ping", ""), CompleteEvent>>
    /\ Len(messages) = 2
    /\ messages[2].type = "ai"
    /\ messages[2].content = "Analysis completed"

\* The messages of the transport failures: of a fetch that does not give a
\* readable response, and of a read that throws
FetchFailureMessages ==
    {"Failed to fetch", "HTTP error! status: 500", "No response body reader available"}

ReadFailureMessages == {"network error"}

\* This step is the transport failure of invocation r
TransportFails(r) == pc[r] \in {"fetching", "reading"} /\ pc'[r] = "failed"

\* C14: when the transport fails for a request (fetch rejects, non-success
\* status, no body reader, or a read that throws), the session error is set to
\* the failure message, the in-flight flag becomes false, the failure creates no
\* Turn, and the request is not retried: it fetches and reads no more.
C14_TransportFailure ==
    [][\A r \in Requests :
          /\ TransportFails(r) =>
                 /\ \E m \in (IF pc[r] = "fetching" THEN FetchFailureMessages
                                ELSE ReadFailureMessages) : error' = Some(m)
                 /\ isLoading' = FALSE
                 /\ messages' = messages
                 /\ nreq' = nreq
          /\ pc[r] = "failed" =>
                 /\ pc'[r] = "failed"
                 /\ reads'[r] = reads[r]
                 /\ delivered'[r] = delivered[r]]_vars

\* A read threw after the stream had delivered an event: the error is the
\* failure's message, nothing is in flight and the user's Turn is the only one
C14_Witness ==
    /\ pc[1] = "failed"
    /\ delivered[1] = <<Event("message", "hi")>>
    /\ error = Some("network error")
    /\ isLoading = FALSE
    /\ Len(messages) = 1
    /\ messages[1].type = "human"

\* The first Turns of the list after the step are the Turns before it, unchanged
OnlyAppends ==
    /\ Len(messages') >= Len(messages)
    /\ SubSeq(messages', 1, Len(messages)) = messages

\* C15: finalized Turns are immutable: a UI command leaves the Turn list alone
\* (cancel) or empties it (reset), and every other step (an event, a submit, a
\* timer callback, a failure) leaves each Turn of the list as it is and at most
\* appends Turns after them.
C15_TurnsImmutable ==
    [][IF ncommands' # ncommands
       THEN messages' = messages \/ messages' = <<>>
       ELSE OnlyAppends]_vars

\* After an assistant Turn was created the first request was cancelled, one of
\* its timers ran and a second submit appended its Turn: the first two Turns
\* are as they were created
C15_Witness ==
    /\ nreq = 2
    /\ commands[1] = {<<"cancel", TRUE>>}
    /\ timersFired[1] >= 1
    /\ Len(messages) = 3
    /\ messages[1] = [type |-> "human", content |-> "Build a todo app", id |-> "0"]
    /\ messages[2].type = "ai"
    /\ messages[2].content = "Analysis completed"
    /\ messages[3].type = "human"

\* The ids of the assistant Turns of the Turn list
AssistantIds == {messages[i].id : i \in {j \in 1..Len(messages) : messages[j].type = "ai"}}

\* C16: in every reachable state the key set of the historical timeline map is
\* the set of ids of the assistant Turns of the Turn list.
C16_HistoryKeysAreAssistantIds ==
    DOMAIN historicalActivities = AssistantIds

\* Two `complete` events at different clock values gave two assistant Turns
\* and two historical entries
C16_Witness ==
    /\ Cardinality(AssistantIds) = 2
    /\ DOMAIN historicalActivities = AssistantIds
    /\ \E r \in Requests : pc[r] = "failed"

\* C17: cancel() abandons the in-flight network read: after a cancel() that ran
\* while a request was streaming, no event of that request's stream changes the
\* display text, the streaming metadata, the Turn list, the historical map or
\* the error, and the end of that stream does not change the in-flight flag.
C17_CancelAbandonsRead ==
    [][\A r \in Requests :
          <<"cancel", TRUE>> \in commands[r] =>
              /\ Folds(r) =>
                     UNCHANGED <<currentStreamingMessage, streamingMetadata, messages,
                                 historicalActivities, error>>
              /\ (pc[r] = "reading" /\ pc'[r] # "reading") =>
                     isLoading' = isLoading]_vars

\* The positions of the assistant Turns in the Turn list
AssistantTurns == {i \in 1..Len(messages) : messages[i].type = "ai"}

\* C18: an assistant Turn is created once per request: whatever events the
\* streams carry, the Turn list never holds more assistant Turns than there
\* were submits.
C18_OneAssistantTurnPerSubmit ==
    Cardinality(AssistantTurns) <= nreq

\* C19: in every reachable state the live timeline is a prefix of the fixed
\* seven-stage sequence: at most seven entries, in that order, no duplicates.
C19_TimelineIsPrefix ==
    /\ Len(processedEventsTimeline) <= Len(timelineEvents)
    /\ \A i \in 1..Len(processedEventsTimeline) :
           processedEventsTimeline[i] = timelineEvents[i]

\* C20: whenever the read loop of the most recently submitted request is
\* running and neither cancel() nor reset() has run since that submit, the
\* in-flight flag is true.
C20_InFlightTracksCurrent ==
    (nreq >= 1 /\ pc[nreq] = "reading" /\ commands[nreq] = {}) => isLoading

====
